---- MODULE Spec2Model ----
(***************************************************************************)
(* Model of streamlit_app.py: the SEC filing normalizer                    *)
(* (obtener_datos_sec), the as-of join with prices                         *)
(* (calcular_per_y_fusionar), the trailing growth / mean-PER analytics     *)
(* (calcular_crecimiento, the mean PER) and the projection tab.          *)
(*                                                                         *)
(* Numbers that pandas may hold as a float, None or NaN are sequences of   *)
(* integers: <<>> is None, <<0, 0>> is NaN and <<n, d>> with d > 0 is the  *)
(* rational n/d in lowest terms.  Dates are positive integers; NaT is the  *)
(* value pd.to_datetime(..., errors="coerce") yields for unparseable text. *)
(***************************************************************************)
EXTENDS Integers, Sequences, FiniteSets, TLC

\* ------------------------------------------------------------------ bounds
\* Most filing records in one SEC response.
MaxFilings == 2
\* Latest calendar date (dates are 1..MaxDate).
MaxDate == 2
\* Most rows of one price history.
MaxPrices == 2
\* Longest series handed to calcular_crecimiento on its own.
MaxLen == 4
\* Largest window handed to calcular_crecimiento on its own.
MaxAnios == 3
\* Most annual rows of a joined frame shown in the tabs.
MaxRows == 5

\* ------------------------------------------------------- values and dates
\* Raw text of a date field that pd.to_datetime cannot parse.
BadDate == 0
\* What pd.to_datetime(errors="coerce") returns for such text.
NaT == -1

None == <<>>
NaN == <<0, 0>>

IsNum(x) == Len(x) = 2 /\ x[2] # 0
\* pd.notna / dropna: neither None nor NaN.
NotNa(x) == IsNum(x)

Abs(n) == IF n < 0 THEN -n ELSE n

RECURSIVE Gcd(_, _)
Gcd(a, b) == IF b = 0 THEN a ELSE Gcd(b, a % b)

\* n/d in lowest terms with a positive denominator (d # 0).
Rat(n, d) ==
    LET g == Gcd(Abs(n), Abs(d))
        s == IF d < 0 THEN -1 ELSE 1
    IN  <<(s * n) \div g, (s * d) \div g>>

Num(n) == <<n, 1>>

\* Float arithmetic: NaN propagates.
RMul(x, y) == IF IsNum(x) /\ IsNum(y) THEN Rat(x[1] * y[1], x[2] * y[2]) ELSE NaN
RAdd(x, y) ==
    IF IsNum(x) /\ IsNum(y) THEN Rat(x[1] * y[2] + y[1] * x[2], x[2] * y[2]) ELSE NaN
\* Division by a non-zero number (the code only divides where that holds).
RDiv(x, y) ==
    IF IsNum(x) /\ IsNum(y) /\ y[1] # 0 THEN Rat(x[1] * y[2], x[2] * y[1]) ELSE NaN

RECURSIVE RPow(_, _)
RPow(x, k) == IF k = 0 THEN Num(1) ELSE RMul(x, RPow(x, k - 1))

RLe(x, y) == x[1] * y[2] <= y[1] * x[2]
RLt(x, y) == x[1] * y[2] < y[1] * x[2]

RECURSIVE IPow(_, _)
IPow(p, n) == IF n = 0 THEN 1 ELSE p * IPow(p, n - 1)

RECURSIVE FirstRoot(_, _, _)
FirstRoot(a, n, p) == IF IPow(p, n) >= a THEN p ELSE FirstRoot(a, n, p + 1)

\* The n-th root of a natural number that has an exact one (the values the
\* model draws are picked so that every root taken is exact).
IRoot(a, n) == CHOOSE r \in {FirstRoot(a, n, 0)} : IPow(r, n) = a

\* x ** (1 / n) on floats: NaN for a negative base.
RRoot(x, n) ==
    IF ~IsNum(x) \/ x[1] < 0 THEN NaN ELSE <<IRoot(x[1], n), IRoot(x[2], n)>>

\* ------------------------------------------------------------- sequences
\* Sequences over S of length at most n.
SeqUpTo(S, n) == UNION {[1..k -> S] : k \in 0..n}

\* -------------------------------------------------------------- SEC data
FiscalYears == {1, 2}
RawDates == {BadDate} \cup (1..MaxDate)
EpsValues == {-2, 0, 2}

\* One entry of json_data["units"]["USD/shares"]: annual reports with every
\* combination of dates and value, amendments that differ in year and filing
\* date, and one record that fails each half of the filter.
RawFilings ==
    [form : {"10-K"}, fp : {"FY"}, fy : FiscalYears,
     filed : RawDates, end : RawDates, val : EpsValues]
    \cup
    [form : {"10-K/A"}, fp : {"FY"}, fy : FiscalYears,
     filed : RawDates, end : {MaxDate}, val : {2}]
    \cup
    [form : {"10-Q"}, fp : {"FY"}, fy : {1}, filed : {MaxDate}, end : {MaxDate}, val : {2}]
    \cup
    [form : {"10-K"}, fp : {"Q1"}, fy : {1}, filed : {MaxDate}, end : {MaxDate}, val : {2}]

\* One row of hist["Close"].reset_index(): trading dates are distinct.
PriceValues == {10, 30}
PricePoints == [Fecha : 1..MaxDate, Precio : PriceValues]
PriceHistories ==
    {h \in SeqUpTo(PricePoints, MaxPrices) :
        \A i, j \in 1..Len(h) : i # j => h[i].Fecha # h[j].Fecha}

VARIABLES
    pc,            \* where the script run is
    has_units,     \* "USD/shares" in json_data["units"]
    json_data,     \* the SEC response's USD/shares entries (obtener_datos_sec's local)
    eps_anual_df,  \* what obtener_datos_sec returned (<<>>: None or an empty frame)
    precios_df,    \* what obtener_datos_yfinance returned (<<>>: None)
    eps_price_df,  \* what calcular_per_y_fusionar returned
    ttm_data,      \* the trailing snapshot obtener_datos_yfinance returned
    tab1,          \* the figures the first tab computes (lines 111, 141-144)
    session_state, \* st.session_state: the widgets of tab 2 and projection_results
    llamada        \* one call of calcular_crecimiento: its arguments and its result

vars == <<pc, has_units, json_data, eps_anual_df, precios_df, eps_price_df,
          ttm_data, tab1, session_state, llamada>>

\* What the pipeline leaves alone, and what the tabs leave alone.
tabs == <<ttm_data, tab1, session_state, llamada>>
pipeline == <<has_units, json_data, eps_anual_df, precios_df>>

NoTtm == [price |-> None, eps |-> None]
NoTab1 ==
    [per_ttm |-> None, eps_crecimiento_10 |-> None, eps_crecimiento_5 |-> None,
     per_promedio_10 |-> None, per_promedio_5 |-> None]
NoSession ==
    [per_radio |-> "", per_manual |-> None, cagr_radio |-> "", cagr_manual |-> None,
     projection_results |-> None]
NoLlamada == [data |-> <<>>, anios |-> 0, ret |-> None]

\* pd.to_datetime(text, errors="coerce")
ToDatetime(text) == IF text = BadDate THEN NaT ELSE text

\* Lines 35-37: rename end/val, coerce both date columns.
Renamed(r) ==
    [form |-> r.form, fp |-> r.fp, fy |-> r.fy,
     filed |-> ToDatetime(r.filed), Fecha |-> ToDatetime(r.end), EPS |-> r.val]

\* Line 38.
Mask(r) == r.form \in {"10-K", "10-K/A"} /\ r.fp = "FY"

\* Descending order on a date column; sort_values puts NaT last.
DateDescBefore(a, b) == a # NaT /\ (b = NaT \/ a > b)
\* Ascending order on a date column; NaT last as well.
DateAscBefore(a, b) == a # NaT /\ (b = NaT \/ a < b)

\* A normalizer that keeps the earliest filing of a year.
SortFyFiledEarliest(a, b) ==
    \/ a.fy > b.fy
    \/ a.fy = b.fy /\ DateAscBefore(a.filed, b.filed)

\* Line 42: by=["fy", "filed"], ascending=[False, False] (a stable lexsort).
SortFyFiledBefore(a, b) ==
    \/ a.fy > b.fy
    \/ a.fy = b.fy /\ DateDescBefore(a.filed, b.filed)

\* Line 43: drop_duplicates(subset="fy", keep="first").
RECURSIVE DropDuplicatesFy(_, _)
DropDuplicatesFy(s, seen) ==
    IF s = <<>> THEN <<>>
    ELSE IF Head(s).fy \in seen THEN DropDuplicatesFy(Tail(s), seen)
    ELSE <<Head(s)>> \o DropDuplicatesFy(Tail(s), seen \cup {Head(s).fy})

\* Line 44.
SortFyBefore(a, b) == a.fy < b.fy

\* Lines 63-64: sort_values("Fecha"), ascending with NaT last.  The default
\* sort of frames this small (numpy sorts runs of up to 16 keys by insertion)
\* keeps rows with equal dates in their input order.
FechaBefore(a, b) == DateAscBefore(a.Fecha, b.Fecha)

\* The order a sort_values call asks for, by its `by` argument.
Precedes(by, a, b) ==
    CASE by = "fy,filed" -> SortFyFiledBefore(a, b)
      [] by = "fy" -> SortFyBefore(a, b)
      [] by = "Fecha" -> FechaBefore(a, b)

\* Stable insertion: x goes before the first element it must precede, so
\* elements that compare equal keep their input order.
InsertBy(x, s, by) ==
    LET firsts == {i \in 1..Len(s) : Precedes(by, x, s[i])}
        p == IF firsts = {} THEN Len(s) + 1
             ELSE CHOOSE i \in firsts : \A j \in firsts : i <= j
    IN  SubSeq(s, 1, p - 1) \o <<x>> \o SubSeq(s, p, Len(s))

\* DataFrame.sort_values(by=...).
SortValues(s, by) ==
    LET sorted[k \in 0..Len(s)] ==
            IF k = 0 THEN <<>> ELSE InsertBy(s[k], sorted[k - 1], by)
    IN  sorted[Len(s)]

\* Lines 34-46, for a response that has the USD/shares unit.
Normalize(units) ==
    LET eps_data == [i \in 1..Len(units) |-> Renamed(units[i])]
        eps_anual_data == SelectSeq(eps_data, Mask)
        sorted == SortValues(eps_anual_data, "fy,filed")
        final_eps == DropDuplicatesFy(sorted, {})
    IN  SortValues(final_eps, "fy")

\* ------------------------------------------------------------ the join
\* A join that looks forward in time.
AsofForward(fecha, prices) ==
    LET hits == {i \in 1..Len(prices) : prices[i].Fecha >= fecha}
    IN  IF hits = {} THEN NaN
        ELSE Num(prices[CHOOSE i \in hits : \A j \in hits : i <= j].Precio)

\* merge_asof(..., direction="backward"): the last row of the sorted prices
\* whose Fecha is <= the key, NaN when there is none.
AsofBackward(fecha, prices) ==
    LET hits == {i \in 1..Len(prices) : prices[i].Fecha <= fecha}
    IN  IF hits = {} THEN NaN
        ELSE Num(prices[CHOOSE i \in hits : \A j \in hits : j <= i].Precio)

\* A ratio computed whatever the sign of the earnings.
PerOfAnySign(eps, precio) == IF eps # 0 THEN RDiv(precio, Num(eps)) ELSE None

\* Lines 66-68: np.where(EPS > 0, Precio / EPS, None).
PerOf(eps, precio) == IF eps > 0 THEN RDiv(precio, Num(eps)) ELSE None

\* Lines 65-69 on sorted inputs whose keys hold no NaT.  Every ratio is a
\* quotient by a positive EPS, so line 69 finds no infinity to replace.
MergeAsof(eps_sorted, prices_sorted) ==
    [i \in 1..Len(eps_sorted) |->
        LET r == eps_sorted[i]
            precio == AsofBackward(r.Fecha, prices_sorted)
        IN  [fy |-> r.fy, Fecha |-> r.Fecha, filed |-> r.filed, EPS |-> r.EPS,
             Precio |-> precio, PER |-> PerOf(r.EPS, precio)]]

\* merge_asof refuses null keys on the left side (ValueError).
MergeKeysNull(eps_df) == \E i \in 1..Len(eps_df) : eps_df[i].Fecha = NaT

Init ==
    /\ pc = "start"
    /\ has_units \in BOOLEAN
    /\ \E n \in 0..MaxFilings : json_data \in [1..n -> RawFilings]
    /\ ~has_units => json_data = <<>>
    /\ eps_anual_df = <<>>
    /\ precios_df = <<>>
    /\ eps_price_df = <<>>
    /\ ttm_data = NoTtm
    /\ tab1 = NoTab1
    /\ session_state = NoSession
    /\ llamada = NoLlamada

\* Lines 27-45 of obtener_datos_sec(CIK), called at line 95: the frame it is
\* about to return.
ObtenerDatosSec ==
    /\ pc = "start"
    /\ eps_anual_df' = IF has_units THEN Normalize(json_data) ELSE <<>>
    /\ pc' = "sec"
    /\ UNCHANGED <<has_units, json_data, precios_df, eps_price_df>>
    /\ UNCHANGED tabs

\* Lines 33, 41 and 46: the return, after which the response is gone.
RetornarDatosSec ==
    /\ pc = "sec"
    /\ json_data' = <<>>
    /\ has_units' = FALSE
    /\ pc' = "sec_ret"
    /\ UNCHANGED <<eps_anual_df, precios_df, eps_price_df>>
    /\ UNCHANGED tabs

\* Line 96: obtener_datos_yfinance(ticker).
ObtenerDatosYfinance ==
    /\ pc = "sec_ret"
    /\ precios_df' \in PriceHistories
    /\ pc' = "yf"
    /\ UNCHANGED <<has_units, json_data, eps_anual_df, eps_price_df>>
    /\ UNCHANGED tabs

\* Lines 98-99.
SinEps ==
    /\ pc = "yf"
    /\ eps_anual_df = <<>>
    /\ pc' = "no_eps"
    /\ UNCHANGED <<has_units, json_data, eps_anual_df, precios_df, eps_price_df>>
    /\ UNCHANGED tabs

\* Lines 100-101.
SinPrecios ==
    /\ pc = "yf"
    /\ eps_anual_df # <<>>
    /\ precios_df = <<>>
    /\ pc' = "no_prices"
    /\ UNCHANGED <<has_units, json_data, eps_anual_df, precios_df, eps_price_df>>
    /\ UNCHANGED tabs

\* Line 103, when merge_asof raises: line 255 reports the error and the run
\* ends without any table.
FusionarFalla ==
    /\ pc = "yf"
    /\ eps_anual_df # <<>>
    /\ precios_df # <<>>
    /\ MergeKeysNull(eps_anual_df)
    /\ pc' = "error"
    /\ UNCHANGED <<has_units, json_data, eps_anual_df, precios_df, eps_price_df>>
    /\ UNCHANGED tabs

\* Line 103: calcular_per_y_fusionar(eps_anual_df, precios_df).
CalcularPerYFusionar ==
    /\ pc = "yf"
    /\ eps_anual_df # <<>>
    /\ precios_df # <<>>
    /\ ~MergeKeysNull(eps_anual_df)
    /\ eps_price_df' = MergeAsof(SortValues(eps_anual_df, "Fecha"),
                                 SortValues(precios_df, "Fecha"))
    /\ pc' = "joined"
    /\ UNCHANGED <<has_units, json_data, eps_anual_df, precios_df>>
    /\ UNCHANGED tabs

Next ==
    \/ ObtenerDatosSec
    \/ RetornarDatosSec
    \/ ObtenerDatosYfinance
    \/ SinEps
    \/ SinPrecios
    \/ FusionarFalla
    \/ CalcularPerYFusionar

Spec == Init /\ [][Next]_vars

\* ============================================================ the tabs
\* Line 135: data.dropna().
Dropna(data) == SelectSeq(data, NotNa)

\* A growth rate that refuses only a negative base.
CalcularCrecimientoBaseCero(data, anios) ==
    LET d == Dropna(data) IN
    IF Len(d) < anios THEN None
    ELSE LET valor_inicial == d[Len(d) - anios + 1] IN
         IF RLt(valor_inicial, Num(0)) THEN None
         ELSE RMul(RAdd(RRoot(RDiv(d[Len(d)], valor_inicial), anios), Num(-1)), Num(100))

\* Lines 134-139: calcular_crecimiento(data, años).
CalcularCrecimiento(data, anios) ==
    LET d == Dropna(data) IN
    IF Len(d) < anios THEN None
    ELSE LET valor_inicial == d[Len(d) - anios + 1] IN
         IF RLe(valor_inicial, Num(0)) THEN None
         ELSE RMul(RAdd(RRoot(RDiv(d[Len(d)], valor_inicial), anios), Num(-1)), Num(100))

\* The two windows of lines 141-144.
VentanaLarga == 10
VentanaCorta == 5

\* series.tail(n)
Tail_(s, n) == IF Len(s) <= n THEN s ELSE SubSeq(s, Len(s) - n + 1, Len(s))

RECURSIVE RSum(_)
RSum(s) == IF s = <<>> THEN Num(0) ELSE RAdd(Head(s), RSum(Tail(s)))

\* series.mean(): NaN for an empty series.
Mean(s) == IF s = <<>> THEN NaN ELSE RDiv(RSum(s), Num(Len(s)))

\* Lines 143-144: eps_price_df["PER"].dropna().tail(n).mean().
PerPromedio(frame, n) ==
    Mean(Tail_(Dropna([i \in 1..Len(frame) |-> frame[i].PER]), n))

\* The "EPS Año Fiscal" column as floats.
EpsColumn(frame) == [i \in 1..Len(frame) |-> Num(frame[i].EPS)]

\* Python truth of a number or None.
Truthy(x) == x # None /\ ~(IsNum(x) /\ x[1] = 0)

\* Line 111, with line 163's isinstance(per_ttm, float): None stands for "N/A".
PerTtm(ttm) ==
    IF Truthy(ttm.price) /\ Truthy(ttm.eps) /\ IsNum(ttm.eps) /\ ttm.eps[1] > 0
    THEN RDiv(ttm.price, ttm.eps) ELSE None

\* The labels of the two radios (año is written anio).
PerTtmLabel == "PER (TTM)"
Per10Label == "PER medio 10 anios"
Per5Label == "PER medio 5 anios"
PerManualLabel == "Ingresar PER manualmente"
Cagr10Label == "CAGR ultimos 10 anios"
Cagr5Label == "CAGR ultimos 5 anios"
CagrManualLabel == "Ingresar CAGR manualmente"

\* Line 163: per_opciones.
PerOpciones(t) ==
    (PerTtmLabel :> t.per_ttm) @@ (Per10Label :> t.per_promedio_10)
    @@ (Per5Label :> t.per_promedio_5) @@ (PerManualLabel :> None)

\* Line 171: cagr_opciones.
CagrOpciones(t) ==
    (Cagr10Label :> t.eps_crecimiento_10) @@ (Cagr5Label :> t.eps_crecimiento_5)
    @@ (CagrManualLabel :> None)

\* Lines 164 and 172: the options whose value is not None, then the manual one.
Ofrecidas(opciones, manual) ==
    {k \in DOMAIN opciones : opciones[k] # None} \cup {manual}

\* The radio's first option, which a first run selects.
PrimeraOpcion(opciones, orden) ==
    LET idx == {i \in 1..Len(orden) : opciones[orden[i]] # None}
    IN  IF idx = {} THEN orden[Len(orden)]
        ELSE orden[CHOOSE i \in idx : \A j \in idx : i <= j]

PerOrden == <<PerTtmLabel, Per10Label, Per5Label, PerManualLabel>>
CagrOrden == <<Cagr10Label, Cagr5Label, CagrManualLabel>>

\* Line 166: min_value=0.1, which is also the widget's first value.
PerManualMin == Rat(1, 10)
\* Line 174: min_value=-50.0, which is also the widget's first value.
CagrManualMin == Num(-50)
\* What a user types into the two number inputs.
PerManuales == {PerManualMin, Num(15)}
CagrManuales == {CagrManualMin, Num(10)}

\* Lines 165-168.
PerBase ==
    IF session_state.per_radio = PerManualLabel THEN session_state.per_manual
    ELSE PerOpciones(tab1)[session_state.per_radio]

\* Lines 173-176.
CagrEps ==
    IF session_state.cagr_radio = CagrManualLabel THEN session_state.cagr_manual
    ELSE CagrOpciones(tab1)[session_state.cagr_radio]

\* Line 185: np.arange(1, 6) ends at this year.
HorizonteAnios == 5

\* A projection whose years start at zero.
ProyeccionDesdeCero(current_eps, per_base, cagr_eps) ==
    [k \in 1..HorizonteAnios |->
        LET projected_eps ==
                RMul(current_eps, RPow(RAdd(Num(1), RDiv(cagr_eps, Num(100))), k - 1))
        IN  [Anio |-> k - 1,
             EPS |-> projected_eps,
             Pesimista |-> RMul(projected_eps, RMul(per_base, Rat(8, 10))),
             Base |-> RMul(projected_eps, per_base),
             Optimista |-> RMul(projected_eps, RMul(per_base, Rat(12, 10)))]]

\* Lines 185-194: proyeccion_df.
Proyeccion(current_eps, per_base, cagr_eps) ==
    [k \in 1..HorizonteAnios |->
        LET projected_eps ==
                RMul(current_eps, RPow(RAdd(Num(1), RDiv(cagr_eps, Num(100))), k))
        IN  [Anio |-> k,
             EPS |-> projected_eps,
             Pesimista |-> RMul(projected_eps, RMul(per_base, Rat(8, 10))),
             Base |-> RMul(projected_eps, per_base),
             Optimista |-> RMul(projected_eps, RMul(per_base, Rat(12, 10)))]]

\* Line 180: eps_price_df["EPS Año Fiscal"].iloc[-1].
CurrentEps == Num(eps_price_df[Len(eps_price_df)].EPS)

\* ---------------------------------------------- calcular_crecimiento alone
\* The EPS values of a series: NaN, a loss, zero, and two whose quotients
\* have exact roots for every window.
CagrValues == {NaN, Num(-1), Num(0), Num(1), Num(4096)}

InitCagr ==
    /\ pc = "llamada"
    /\ llamada \in [data : SeqUpTo(CagrValues, MaxLen), anios : 1..MaxAnios, ret : {None}]
    /\ has_units = FALSE
    /\ json_data = <<>>
    /\ eps_anual_df = <<>>
    /\ precios_df = <<>>
    /\ eps_price_df = <<>>
    /\ ttm_data = NoTtm
    /\ tab1 = NoTab1
    /\ session_state = NoSession

LlamarCalcularCrecimiento ==
    /\ pc = "llamada"
    /\ llamada' = [llamada EXCEPT !.ret = CalcularCrecimiento(llamada.data, llamada.anios)]
    /\ pc' = "retorno"
    /\ UNCHANGED <<eps_price_df, ttm_data, tab1, session_state>>
    /\ UNCHANGED pipeline

NextCagr == LlamarCalcularCrecimiento

SpecCagr == InitCagr /\ [][NextCagr]_vars

\* ------------------------------------------------------- the tabs' runs
\* Annual EPS values in the tabs: a loss and two profits whose quotient has an
\* exact fifth root.
TabEps == {-1, 1, 32}
\* The price joined to a row that has one.
TabPrecio == Num(64)

\* A joined frame: rows in period-end order, the first sin_precio of them
\* older than the whole price history (none of them, or all of them).
Frame(eps, sin_precio) ==
    [i \in 1..Len(eps) |->
        LET precio == IF i <= sin_precio THEN NaN ELSE TabPrecio
        IN  [fy |-> i, Fecha |-> i, filed |-> i, EPS |-> eps[i],
             Precio |-> precio, PER |-> PerOf(eps[i], precio)]]

JoinedFrames ==
    {Frame(eps, 0) : eps \in SeqUpTo(TabEps, MaxRows) \ {<<>>}}
    \cup {Frame(eps, Len(eps)) : eps \in SeqUpTo(TabEps, MaxRows) \ {<<>>}}

InitTabs ==
    /\ pc = "joined"
    /\ eps_price_df \in JoinedFrames
    /\ ttm_data \in [price : {TabPrecio}, eps : {None, Num(2)}]
    /\ tab1 = NoTab1
    /\ session_state = NoSession
    /\ llamada = NoLlamada
    /\ has_units = FALSE
    /\ json_data = <<>>
    /\ eps_anual_df = <<>>
    /\ precios_df = <<>>

\* Lines 108-176 of the first run: the figures of tab 1 and the widgets of
\* tab 2 in their first state.
Resumen ==
    /\ pc = "joined"
    /\ LET t == [per_ttm |-> PerTtm(ttm_data),
                 eps_crecimiento_10 |-> CalcularCrecimiento(EpsColumn(eps_price_df), VentanaLarga),
                 eps_crecimiento_5 |-> CalcularCrecimiento(EpsColumn(eps_price_df), VentanaCorta),
                 per_promedio_10 |-> PerPromedio(eps_price_df, VentanaLarga),
                 per_promedio_5 |-> PerPromedio(eps_price_df, VentanaCorta)]
           per0 == PrimeraOpcion(PerOpciones(t), PerOrden)
           cagr0 == PrimeraOpcion(CagrOpciones(t), CagrOrden)
       IN  /\ tab1' = t
           /\ session_state' =
                [per_radio |-> per0,
                 per_manual |-> IF per0 = PerManualLabel THEN PerManualMin ELSE None,
                 cagr_radio |-> cagr0,
                 cagr_manual |-> IF cagr0 = CagrManualLabel THEN CagrManualMin ELSE None,
                 projection_results |-> None]
    /\ pc' = "tab2"
    /\ UNCHANGED <<eps_price_df, ttm_data, llamada>>
    /\ UNCHANGED pipeline

\* A rerun after the user picks another PER option; a number input that is
\* not drawn loses its value.
SeleccionarPer ==
    /\ pc \in {"tab2", "calculado"}
    /\ \E opcion \in Ofrecidas(PerOpciones(tab1), PerManualLabel) \ {session_state.per_radio} :
          session_state' =
             [session_state EXCEPT
                !.per_radio = opcion,
                !.per_manual = IF opcion = PerManualLabel THEN PerManualMin ELSE None]
    /\ pc' = "tab2"
    /\ UNCHANGED <<eps_price_df, ttm_data, tab1, llamada>>
    /\ UNCHANGED pipeline

\* A rerun after the user types a PER.
IngresarPer ==
    /\ pc \in {"tab2", "calculado"}
    /\ session_state.per_radio = PerManualLabel
    /\ \E valor \in PerManuales \ {session_state.per_manual} :
          session_state' = [session_state EXCEPT !.per_manual = valor]
    /\ pc' = "tab2"
    /\ UNCHANGED <<eps_price_df, ttm_data, tab1, llamada>>
    /\ UNCHANGED pipeline

\* A rerun after the user picks another CAGR option.
SeleccionarCagr ==
    /\ pc \in {"tab2", "calculado"}
    /\ \E opcion \in Ofrecidas(CagrOpciones(tab1), CagrManualLabel) \ {session_state.cagr_radio} :
          session_state' =
             [session_state EXCEPT
                !.cagr_radio = opcion,
                !.cagr_manual = IF opcion = CagrManualLabel THEN CagrManualMin ELSE None]
    /\ pc' = "tab2"
    /\ UNCHANGED <<eps_price_df, ttm_data, tab1, llamada>>
    /\ UNCHANGED pipeline

\* A rerun after the user types a CAGR.
IngresarCagr ==
    /\ pc \in {"tab2", "calculado"}
    /\ session_state.cagr_radio = CagrManualLabel
    /\ \E valor \in CagrManuales \ {session_state.cagr_manual} :
          session_state' = [session_state EXCEPT !.cagr_manual = valor]
    /\ pc' = "tab2"
    /\ UNCHANGED <<eps_price_df, ttm_data, tab1, llamada>>
    /\ UNCHANGED pipeline

\* Lines 178-236: the rerun after a press of the button.
Calcular ==
    /\ pc \in {"tab2", "calculado"}
    /\ session_state' =
          [session_state EXCEPT !.projection_results =
              IF PerBase # None /\ CagrEps # None
              THEN Proyeccion(CurrentEps, PerBase, CagrEps)
              ELSE None]
    /\ pc' = "calculado"
    /\ UNCHANGED <<eps_price_df, ttm_data, tab1, llamada>>
    /\ UNCHANGED pipeline

NextTabs ==
    \/ Resumen
    \/ SeleccionarPer
    \/ IngresarPer
    \/ SeleccionarCagr
    \/ IngresarCagr
    \/ Calcular

SpecTabs == InitTabs /\ [][NextTabs]_vars

\* ================================================== claims on the pipeline
\* The raw entries that pass the filter of line 38, spelled out.
QualifyingRaw ==
    {json_data[i] : i \in {k \in 1..Len(json_data) :
        json_data[k].form \in {"10-K", "10-K/A"} /\ json_data[k].fp = "FY"}}

\* C1: the normalizer returns at most one row per fiscal year, every row is
\* a qualifying record (annual or amended annual form, full-year period),
\* and each fiscal year with a qualifying record gets a row whose filed date
\* is the latest among that year's qualifying records.
C1_LatestFiledPerYear ==
    (pc = "sec" /\ has_units) =>
        /\ \A i, j \in 1..Len(eps_anual_df) :
              i # j => eps_anual_df[i].fy # eps_anual_df[j].fy
        /\ \A i \in 1..Len(eps_anual_df) :
              LET r == eps_anual_df[i] IN
              /\ r.form \in {"10-K", "10-K/A"} /\ r.fp = "FY"
              /\ \E q \in QualifyingRaw :
                    /\ q.form = r.form /\ q.fy = r.fy /\ q.val = r.EPS
                    /\ (q.filed = BadDate /\ r.filed = NaT) \/ (q.filed # BadDate /\ r.filed = q.filed)
                    /\ (q.end = BadDate /\ r.Fecha = NaT) \/ (q.end # BadDate /\ r.Fecha = q.end)
              /\ \A q \in QualifyingRaw :
                    (q.fy = r.fy /\ q.filed # BadDate) => (r.filed # NaT /\ r.filed >= q.filed)
        /\ \A q \in QualifyingRaw : \E i \in 1..Len(eps_anual_df) : eps_anual_df[i].fy = q.fy

\* Two qualifying filings of one year arrive earliest first and one row
\* comes back.
C1_Witness ==
    /\ pc = "sec" /\ has_units
    /\ Len(json_data) >= 2
    /\ \E i, j \in 1..Len(json_data) :
          /\ i < j
          /\ json_data[i] \in QualifyingRaw /\ json_data[j] \in QualifyingRaw
          /\ json_data[i].fy = json_data[j].fy
          /\ json_data[i].filed # BadDate /\ json_data[i].filed < json_data[j].filed
    /\ Len(eps_anual_df) = 1

\* C2: when qualifying records of one fiscal year share the latest filed
\* date, the row returned is the one with the later period end, whatever the
\* order of the input.
C2_TieBrokenByPeriodEnd ==
    (pc = "sec" /\ has_units) =>
        \A i \in 1..Len(eps_anual_df) : \A q \in QualifyingRaw :
            LET r == eps_anual_df[i] IN
            (q.fy = r.fy /\ q.filed # BadDate /\ q.filed = r.filed
                /\ q.end # BadDate /\ r.Fecha # NaT) => r.Fecha >= q.end

\* C3: the join returns one row per annual record, each with the price of
\* the latest price point dated on or before the period end, and with
\* neither price nor PER when no price point is that early.
C3_BackwardAsof ==
    pc = "joined" =>
        /\ Len(eps_price_df) = Len(eps_anual_df)
        /\ \A i \in 1..Len(eps_anual_df) : \E j \in 1..Len(eps_price_df) :
              /\ eps_price_df[j].fy = eps_anual_df[i].fy
              /\ eps_price_df[j].Fecha = eps_anual_df[i].Fecha
              /\ eps_price_df[j].EPS = eps_anual_df[i].EPS
        /\ \A j \in 1..Len(eps_price_df) :
              LET row == eps_price_df[j]
                  early == {k \in 1..Len(precios_df) : precios_df[k].Fecha <= row.Fecha}
              IN  IF early = {}
                  THEN ~NotNa(row.Precio) /\ ~NotNa(row.PER)
                  ELSE \E k \in early :
                          /\ \A m \in early : precios_df[m].Fecha <= precios_df[k].Fecha
                          /\ row.Precio = <<precios_df[k].Precio, 1>>

\* One annual record predates every price and another one has a price on
\* or before its period end.
C3_Witness ==
    /\ pc = "joined"
    /\ \E i, j \in 1..Len(eps_price_df) :
          /\ ~NotNa(eps_price_df[i].Precio)
          /\ NotNa(eps_price_df[j].Precio)

\* C4: a row that carries a PER has EPS > 0 and a price, and the PER is the
\* price divided by the EPS; a row with EPS <= 0 carries no PER.
C4_RatioOnlyForPositiveEps ==
    pc = "joined" =>
        \A j \in 1..Len(eps_price_df) :
            LET row == eps_price_df[j] IN
            /\ NotNa(row.PER) =>
                  /\ row.EPS > 0
                  /\ NotNa(row.Precio)
                  /\ row.PER[1] * row.EPS * row.Precio[2] = row.Precio[1] * row.PER[2]
                  /\ row.PER[1] > 0
            /\ row.EPS <= 0 => ~NotNa(row.PER)

\* A priced row with negative earnings next to a row that carries a PER.
C4_Witness ==
    /\ pc = "joined"
    /\ \E i, j \in 1..Len(eps_price_df) :
          /\ eps_price_df[i].EPS < 0 /\ NotNa(eps_price_df[i].Precio)
          /\ NotNa(eps_price_df[j].PER)

\* C6: normalization followed by the join never fails because of one
\* malformed record: the run never ends in the error handler.
C6_JoinNeverRaises == pc # "error"

\* C10: the rows the join hands on ascend in fiscal year, so the last row
\* is the record of the greatest fiscal year.
C10_RowsAscendInFiscalYear ==
    pc = "joined" =>
        \A i, j \in 1..Len(eps_price_df) :
            i < j => eps_price_df[i].fy < eps_price_df[j].fy

\* ============================================ claims on calcular_crecimiento
\* The values of the call's series that are neither None nor NaN.
LlamadaValores == SelectSeq(llamada.data, LAMBDA x : Len(x) = 2 /\ x[2] # 0)

\* C7: calcular_crecimiento returns None exactly when the null-dropped
\* series has fewer than `window` values or its window-th value from the end
\* is <= 0.
C7_NoneExactlyWhenShortOrNonPositive ==
    pc = "retorno" =>
        LET d == LlamadaValores
            n == Len(d)
            w == llamada.anios
        IN  (llamada.ret = <<>>) <=> (n < w \/ (n >= w /\ d[n - w + 1][1] <= 0))

\* A series long enough for the window until its NaN entries are dropped.
C7_Witness ==
    /\ pc = "retorno"
    /\ Len(llamada.data) >= llamada.anios
    /\ Len(LlamadaValores) < llamada.anios
    /\ llamada.ret = <<>>

\* C9: the starting value is the entry `window` positions before the last
\* entry, so that start and end are `window` annual steps apart, as the
\* exponent 1/window supposes.
C9_StartIsWindowStepsBeforeEnd ==
    (pc = "retorno" /\ llamada.ret # <<>>) =>
        LET d == LlamadaValores
            n == Len(d)
            w == llamada.anios
        IN  /\ n > w
            /\ d[n - w][1] > 0
            /\ llamada.ret =
                 RMul(RAdd(RRoot(RDiv(d[n], d[n - w]), w), Num(-1)), Num(100))

\* ======================================================= claims on the tabs
\* C5: a projection is stored only when the chosen base ratio is a number
\* > 0 and the chosen growth rate is a finite number, whatever options the
\* history offers.
C5_StoredOnlyForValidParameters ==
    (pc = "calculado" /\ session_state.projection_results # <<>>) =>
        /\ Len(PerBase) = 2 /\ PerBase[2] # 0 /\ PerBase[1] > 0
        /\ Len(CagrEps) = 2 /\ CagrEps[2] # 0

\* C8: the stored projection has the rows k = 1..5 with
\* projected_eps[k] = current_eps * (1 + g/100)^k, price_base = projected_eps
\* * base_ratio, pessimistic = 0.8 * base and optimistic = 1.2 * base; with
\* g = 0 every projected_eps is current_eps.
C8_ProjectionRows ==
    (pc = "calculado" /\ session_state.projection_results # <<>>) =>
        LET T == session_state.projection_results
            g == CagrEps
            factor == IF IsNum(g) THEN Rat(100 * g[2] + g[1], 100 * g[2]) ELSE NaN
        IN  /\ Len(T) = 5
            /\ \A k \in 1..5 :
                  /\ T[k].Anio = k
                  /\ T[k].EPS = RMul(IF k = 1 THEN CurrentEps ELSE T[k - 1].EPS, factor)
                  /\ T[k].Base = RMul(T[k].EPS, PerBase)
                  /\ T[k].Pesimista = RMul(Rat(4, 5), T[k].Base)
                  /\ T[k].Optimista = RMul(Rat(6, 5), T[k].Base)
                  /\ (IsNum(g) /\ g[1] = 0) => T[k].EPS = CurrentEps

\* A projection of positive earnings at a growth rate other than zero and a
\* base ratio that is a number.
C8_Witness ==
    /\ pc = "calculado"
    /\ session_state.projection_results # <<>>
    /\ IsNum(CagrEps) /\ CagrEps[1] # 0
    /\ IsNum(PerBase)
    /\ CurrentEps[1] > 0
====
